---- MODULE Spec2Model ----
(***************************************************************************)
(* chitose: Russell-Saunders terms of a sublevel of equivalent electrons.  *)
(* A model of src/src/lib.rs: SubLevelType::max_electrons, SubLevel::new   *)
(* and ee_terms_log (enumeration of the level states, aggregation into the *)
(* ML -> MS -> labels table, and the peeling loop).                        *)
(***************************************************************************)
EXTENDS Integers, Sequences, FiniteSets

VARIABLES
    pc,             \* position in the program
    tp,             \* SubLevelType.0
    electrons,      \* SubLevel.electrons
    overflow_checks, \* whether the build panics on integer overflow
    single_states,  \* Vec<(i8, i8)>: (ml, doubled ms)
    indices,        \* the combination the iterator yields next, None if none
    level_states,   \* Vec<(String, i8, i8)>: (name, ML, doubled MS)
    sorted_states,  \* BTreeMap<i8, BTreeMap<i8, Vec<String>>>
    term_states,    \* HashMap<TermType, Vec<String>>
    terms_log,      \* the TermType lines written to the log after "Terms:"
    term,           \* the TermType of the current iteration of the while loop
    l,              \* largest ML key, bound by the while-let
    s,              \* largest MS key of row l
    cur_l,          \* the outer for loop's l
    cur_s,          \* the inner for loop's s
    result,         \* the returned Vec<TermType>, as a set (HashMap key order)
    panic,          \* the message of the panic that ended the run, "" if none
    shuffle,        \* the order in which the single states are listed
    run,            \* 1: the listed order, 2: the shuffled order
    first_log,      \* terms_log of run 1
    first_result,   \* result of run 1
    first_panic,    \* panic of run 1
    err             \* the LevelError of SubLevel::new, None if none

vars == <<pc, tp, electrons, overflow_checks, single_states, indices,
          level_states, sorted_states, term_states, terms_log, term, l, s,
          cur_l, cur_s, result, panic, shuffle, run, first_log, first_result,
          first_panic, err>>

(***************************************************************************)
(* Bounds of the model and constants of the program.                      *)
(***************************************************************************)
\* Largest sublevel type of the full runs (0 = s, 1 = p, 2 = d).
MaxL == 2

\* Largest sublevel type of the runs repeated with a shuffled state list.
MaxShuffleL == 1

\* Largest sublevel type of the runs on the empty and the full sublevel, and
\* of the runs that stop after the first level state.
MaxWideL == 11

\* Largest value of a u8.
U8Max == 255

\* Largest and smallest value of an i8.
I8Max == 127

I8Min == -128

\* Option: None and Some(x)
None == << >>

Some(x) == <<x>>

NoTerm == [momentum |-> 0, multiplet |-> 0]

WHY == "Should be able to express as u8 (why would you need sublevel with L=50, lol?)"

(***************************************************************************)
(* Integer arithmetic of the widths the code uses.                        *)
(***************************************************************************)
\* u8::checked_mul
CheckedMul(a, b) == IF a * b > U8Max THEN None ELSE Some(a * b)

\* u8::checked_add
CheckedAdd(a, b) == IF a + b > U8Max THEN None ELSE Some(a + b)

\* i8 += i8 in a release build: two's complement wrap-around.
WrappingAdd(a, b) == ((a + b - I8Min) % (I8Max - I8Min + 1)) + I8Min

\* Whether i8 + i8 leaves the range of an i8 (a debug build panics there).
Overflows(a, b) == a + b > I8Max \/ a + b < I8Min

Max(S) == CHOOSE x \in S : \A y \in S : y <= x

\* The element of a set of one element. {F(x) : x \in {e}} computes e once,
\* however often F uses x.
Only(S) == CHOOSE x \in S : TRUE

(***************************************************************************)
(* SubLevelType                                                            *)
(***************************************************************************)
\* max_electrons without the checked_add(1).
MaxElectronsNoAdd(t) ==
    LET doubled == CheckedMul(t, 2)
    IN  IF doubled = None THEN None ELSE CheckedMul(doubled[1], 2)

\* SubLevelType::max_electrons before the expect: None on u8 overflow.
\* and_then passes a None on.
MaxElectronsChecked(t) ==
    LET doubled == CheckedMul(t, 2)
        orbitals == IF doubled = None THEN None ELSE CheckedAdd(doubled[1], 1)
    IN  IF orbitals = None THEN None ELSE CheckedMul(orbitals[1], 2)

\* SubLevelType::mls: the range -l..=l as a sequence, None if L is no i8.
MlsInclusive(t) == [i \in 1..(2 * t + 1) |-> i - 1 - t]

mls(t) == IF t > I8Max THEN None ELSE Some(MlsInclusive(t))

\* SPINS: the doubled spin projections.
SPINS == <<-1, 1>>

\* Itertools::cartesian_product: the first sequence is the outer loop.
CartesianProduct(xs, ys) ==
    [i \in 1..(Len(xs) * Len(ys)) |->
        <<xs[((i - 1) \div Len(ys)) + 1], ys[((i - 1) % Len(ys)) + 1]>>]

(***************************************************************************)
(* Enumeration of the level states (lib.rs 118-143)                        *)
(***************************************************************************)
\* The order of the single states: position i holds listed state order[i].
Reorder(states, order) == [i \in 1..Len(states) |-> states[order[i]]]

Identity(k) == [i \in 1..k |-> i]

\* Positions i and j exchanged.
Transposition(k, i, j) ==
    [x \in 1..k |-> IF x = i THEN j ELSE IF x = j THEN i ELSE x]

\* The list started r positions later.
Rotation(k, r) == [x \in 1..k |-> ((x - 1 + r) % k) + 1]

\* The states taken in turn from the two ends of the list.
Interleave(k) ==
    [x \in 1..k |-> IF x % 2 = 1 THEN (x + 1) \div 2 ELSE k + 1 - (x \div 2)]

\* Shuffles of a list of k states: every exchange of two positions, every
\* rotation, and the interleaving of the two ends.
Shuffles(k) ==
    {Transposition(k, i, j) : i, j \in 1..k}
        \cup {Rotation(k, r) : r \in 0..(k - 1)}
        \cup {Interleave(k)}

\* Itertools::combinations(k) of the n indices 0..n: the first combination
\* the iterator yields, None if there is none.
FirstCombination(n, k) ==
    IF k > n THEN None ELSE Some([i \in 1..k |-> i - 1])

\* The combination that follows c: the last index not at its largest value
\* moves up by one and those after it follow it; None when c is the last.
NextCombination(c, n) ==
    LET k == Len(c)
        movable == {i \in 1..k : c[i] # (i - 1) + n - k}
    IN  IF movable = {} THEN None
        ELSE LET i == Max(movable)
             IN  Some([j \in 1..k |-> IF j < i THEN c[j] ELSE c[i] + 1 + (j - i)])

\* The closure of the for_each: the index next joins repr. name lists the
\* numbers written into the label; overflow records that an i8 addition
\* left the range of an i8.
Push(repr, next, st) ==
    [name |-> Append(repr.name, next + 1),
     ml |-> WrappingAdd(repr.ml, st[1]),
     ms |-> WrappingAdd(repr.ms, st[2]),
     overflow |-> repr.overflow \/ Overflows(repr.ml, st[1])
                                \/ Overflows(repr.ms, st[2])]

\* for_each over the indices state[lo..hi], in their order: the first half,
\* then the second half from where the first has left repr.
RECURSIVE Fold(_, _, _, _, _)
Fold(state, states, lo, hi, repr) ==
    IF lo > hi THEN repr
    ELSE IF lo = hi THEN Push(repr, state[lo], states[state[lo] + 1])
    ELSE Only({Fold(state, states, ((lo + hi) \div 2) + 1, hi, r) :
               r \in {Fold(state, states, lo, (lo + hi) \div 2, repr)}})

\* The closure of the map: the label and the two sums of one combination.
Repr(state, states) ==
    Fold(state, states, 1, Len(state),
         [name |-> << >>, ml |-> 0, ms |-> 0, overflow |-> FALSE])

(***************************************************************************)
(* The aggregation table (lib.rs 188-196)                                  *)
(***************************************************************************)
\* The names pushed to sorted_states[ml][ms], in the order of level_states.
Bucket(states, ml, ms) ==
    LET sel == SelectSeq(states, LAMBDA x : x[2] = ml /\ x[3] = ms)
    IN  [i \in 1..Len(sel) |-> sel[i][1]]

\* for_each: entry(ml).or_default().entry(ms).or_default().push(name)
Aggregated(states) ==
    [ml \in {states[i][2] : i \in 1..Len(states)} |->
        [ms \in {states[i][3] : i \in {j \in 1..Len(states) : states[j][2] = ml}} |->
            Bucket(states, ml, ms)]]

\* BTreeMap::last_key_value: the largest key.
LastKey(map) == Max(DOMAIN map)

\* BTreeMap::remove_entry
RemoveEntry(map, k) == [x \in (DOMAIN map) \ {k} |-> map[x]]

\* An emptied bucket left in its row.
KeepBucket(row, k) == row

\* if sl_states.is_empty() { l_states.remove_entry(&s); }
RemoveIfEmpty(row, k) == IF row[k] = << >> THEN RemoveEntry(row, k) ELSE row

\* if l_states.is_empty() { sorted_states.remove_entry(&l); }
RemoveRowIfEmpty(table, k) ==
    IF DOMAIN table[k] = {} THEN RemoveEntry(table, k) ELSE table

\* Vec::pop: the vector without its last element.
Popped(v) == SubSeq(v, 1, Len(v) - 1)

\* HashMap::entry(term).or_default()
OrDefault(map, k) ==
    IF k \in DOMAIN map THEN map
    ELSE [x \in (DOMAIN map) \cup {k} |-> IF x = k THEN << >> ELSE map[x]]

\* The doubled spin taken for the multiplet.
SpinAsMultiplet(sv) == sv

\* multiplet: (s + 1), SPIN IS DOUBLED
Multiplet(sv) == sv + 1

\* for l in 0..=l
FirstRowZero(lv) == 0

\* for l in -l..=l: the first row
FirstRow(lv) == -lv

\* for s in (-s..=s).step_by(2): the first and the following spin
FirstSpin(sv) == -sv

\* (-s..=s) without the step_by(2)
NextSpinByOne(sv) == sv + 1

NextSpin(sv) == sv + 2

(***************************************************************************)
(* Initial states                                                          *)
(***************************************************************************)
\* 2(2L+1), as an integer of no width.
Capacity(t) == 2 * (2 * t + 1)

InitFor(maxL, maxN) ==
    /\ pc = "new"
    /\ tp \in 0..maxL
    /\ electrons \in 0..maxN
    /\ overflow_checks \in BOOLEAN
    /\ single_states = << >>
    /\ indices = None
    /\ level_states = << >>
    /\ sorted_states = << >>
    /\ term_states = << >>
    /\ terms_log = << >>
    /\ term = NoTerm
    /\ l = 0
    /\ s = 0
    /\ cur_l = 0
    /\ cur_s = 0
    /\ result = {}
    /\ panic = ""
    /\ shuffle = << >>
    /\ run = 1
    /\ first_log = << >>
    /\ first_result = {}
    /\ first_panic = ""
    /\ err = None

\* The empty and the full sublevel of every type up to MaxWideL: one level
\* state each.
InitBoundary ==
    /\ InitFor(MaxWideL, Capacity(MaxWideL))
    /\ electrons \in {0, Capacity(tp)}

\* Every sublevel of a type up to MaxL, one electron too many included, and
\* the empty and the full sublevels up to MaxWideL.
Init == InitFor(MaxL, Capacity(MaxL) + 1) \/ InitBoundary

(***************************************************************************)
(* SubLevel::new (lib.rs 64-70)                                            *)
(***************************************************************************)
New ==
    /\ pc = "new"
    /\ LET max == MaxElectronsChecked(tp)
       IN  IF max = None
           THEN pc' = "panic" /\ panic' = WHY /\ err' = err
           ELSE IF electrons <= max[1]
           THEN pc' = "start" /\ panic' = panic /\ err' = err
           ELSE pc' = "err" /\ panic' = panic /\ err' = <<"ToMuch", tp>>
    /\ shuffle' = Identity(Capacity(tp))
    /\ UNCHANGED <<tp, electrons, overflow_checks, single_states, indices,
                   level_states, sorted_states, term_states, terms_log, term,
                   l, s, cur_l, cur_s, result, run, first_log, first_result,
                   first_panic>>

(***************************************************************************)
(* ee_terms_log (lib.rs 111-239)                                           *)
(***************************************************************************)
Triple(r) == <<r.name, r.ml, r.ms>>

\* single_states and the iterator of the combinations (lib.rs 118-133).
Enumerate ==
    /\ pc = "start"
    /\ IF mls(tp) = None
       THEN /\ pc' = "panic"
            /\ panic' = WHY
            /\ UNCHANGED <<single_states, indices>>
       ELSE \E states \in
                {Reorder(CartesianProduct(mls(tp)[1], SPINS), shuffle)} :
            /\ single_states' = states
            /\ indices' = FirstCombination(Len(states), electrons)
            /\ pc' = "map"
            /\ UNCHANGED panic
    /\ UNCHANGED <<tp, electrons, overflow_checks, level_states,
                   sorted_states, term_states, terms_log, term, l, s, cur_l,
                   cur_s, result, shuffle, run, first_log, first_result,
                   first_panic, err>>

\* The map over one combination, and the collect after the last one
\* (lib.rs 134-143). An i8 sum that overflows panics in a build with overflow
\* checks and wraps around in one without.
MapState ==
    /\ pc = "map"
    /\ IF indices = None
       THEN /\ pc' = "aggregate"
            /\ UNCHANGED <<indices, level_states, panic>>
       ELSE \E repr \in {Repr(indices[1], single_states)} :
            IF repr.overflow /\ overflow_checks
            THEN /\ pc' = "panic"
                 /\ panic' = "attempt to add with overflow"
                 /\ UNCHANGED <<indices, level_states>>
            ELSE /\ level_states' = Append(level_states, Triple(repr))
                 /\ indices' = NextCombination(indices[1], Len(single_states))
                 /\ UNCHANGED <<pc, panic>>
    /\ UNCHANGED <<tp, electrons, overflow_checks, single_states,
                   sorted_states, term_states, terms_log, term, l, s, cur_l,
                   cur_s, result, shuffle, run, first_log, first_result,
                   first_panic, err>>

\* sorted_states (lib.rs 188-196); level_states is consumed.
Aggregate ==
    /\ pc = "aggregate"
    /\ sorted_states' = Aggregated(level_states)
    /\ level_states' = << >>
    /\ pc' = "while"
    /\ UNCHANGED <<tp, electrons, overflow_checks, single_states, indices,
                   term_states, terms_log, term, l, s, cur_l, cur_s, result,
                   panic, shuffle, run, first_log, first_result, first_panic,
                   err>>

\* The head of the while loop (lib.rs 200-212), and the return (lib.rs 238).
While ==
    /\ pc = "while"
    /\ IF DOMAIN sorted_states = {}
       THEN /\ pc' = "done"
            /\ result' = DOMAIN term_states
            /\ UNCHANGED <<term_states, terms_log, term, l, s, cur_l, panic>>
       ELSE LET lk == LastKey(sorted_states)
                row == sorted_states[lk]
                fatal(why) ==
                    /\ pc' = "panic"
                    /\ panic' = why
                    /\ UNCHANGED <<term_states, terms_log, term, l, s, cur_l,
                                   result>>
            IN  IF DOMAIN row = {}
                THEN fatal("There's at least one state, so entry should exist")
                ELSE IF lk < 0
                THEN fatal("Max momentum must be nonnegative!")
                ELSE IF Overflows(LastKey(row), 1) /\ overflow_checks
                THEN fatal("attempt to add with overflow")
                ELSE IF Multiplet(LastKey(row)) < 0
                THEN fatal("Max spin must be nonnegative!")
                ELSE LET t == [momentum |-> lk,
                               multiplet |-> Multiplet(LastKey(row))]
                     IN  /\ term' = t
                         /\ terms_log' = Append(terms_log, t)
                         /\ term_states' = OrDefault(term_states, t)
                         /\ l' = lk
                         /\ s' = LastKey(row)
                         /\ cur_l' = FirstRow(lk)
                         /\ pc' = "for_l"
                         /\ UNCHANGED <<result, panic>>
    /\ UNCHANGED <<tp, electrons, overflow_checks, single_states, indices,
                   level_states, sorted_states, cur_s, shuffle, run,
                   first_log, first_result, first_panic, err>>

\* The head of the outer for loop (lib.rs 214-217).
ForRow ==
    /\ pc = "for_l"
    /\ IF cur_l > l
       THEN pc' = "while" /\ UNCHANGED <<cur_s, panic>>
       ELSE IF cur_l \notin DOMAIN sorted_states
       THEN /\ pc' = "panic"
            /\ panic' = "Should be entry for this key, enforced above"
            /\ UNCHANGED cur_s
       ELSE pc' = "for_s" /\ cur_s' = FirstSpin(s) /\ UNCHANGED panic
    /\ UNCHANGED <<tp, electrons, overflow_checks, single_states, indices,
                   level_states, sorted_states, term_states, terms_log, term,
                   l, s, cur_l, result, shuffle, run, first_log, first_result,
                   first_panic, err>>

\* One iteration of the inner for loop (lib.rs 218-230).
PopCell ==
    /\ pc = "for_s"
    /\ cur_s <= s
    /\ LET row == sorted_states[cur_l]
       IN  IF cur_s \notin DOMAIN row
           THEN /\ pc' = "panic"
                /\ panic' = "Should be entry states with this spin!"
                /\ UNCHANGED <<sorted_states, term_states, cur_s>>
           ELSE IF row[cur_s] = << >>
           THEN /\ pc' = "panic"
                /\ panic' = "Should be at least one state, will be enforced now"
                /\ UNCHANGED <<sorted_states, term_states, cur_s>>
           ELSE LET sl_states == row[cur_s]
                    this_state == sl_states[Len(sl_states)]
                    popped == [row EXCEPT ![cur_s] = Popped(sl_states)]
                IN  /\ term_states' =
                           [term_states EXCEPT ![term] = Append(@, this_state)]
                    /\ sorted_states' =
                           [sorted_states EXCEPT
                               ![cur_l] = RemoveIfEmpty(popped, cur_s)]
                    /\ cur_s' = NextSpin(cur_s)
                    /\ UNCHANGED <<pc, panic>>
    /\ UNCHANGED <<tp, electrons, overflow_checks, single_states, indices,
                   level_states, terms_log, term, l, s, cur_l, result,
                   shuffle, run, first_log, first_result, first_panic, err>>

\* The end of the inner for loop (lib.rs 232-234).
EndRow ==
    /\ pc = "for_s"
    /\ cur_s > s
    /\ sorted_states' = RemoveRowIfEmpty(sorted_states, cur_l)
    /\ cur_l' = cur_l + 1
    /\ pc' = "for_l"
    /\ UNCHANGED <<tp, electrons, overflow_checks, single_states, indices,
                   level_states, term_states, terms_log, term, l, s, cur_s,
                   result, panic, shuffle, run, first_log, first_result,
                   first_panic, err>>

Next ==
    \/ New
    \/ Enumerate
    \/ MapState
    \/ Aggregate
    \/ While
    \/ ForRow
    \/ PopCell
    \/ EndRow

Spec == Init /\ [][Next]_vars

\* The program is sequential: a step that can be taken is taken.
FairSpec == Spec /\ WF_vars(Next)

(***************************************************************************)
(* SubLevel::new on every pair of u8 arguments.                            *)
(***************************************************************************)
InitNew == InitFor(U8Max, U8Max)

SpecNew == InitNew /\ [][New]_vars

(***************************************************************************)
(* The run repeated with the single states listed in a shuffled order.     *)
(***************************************************************************)
\* The program started again on the same sublevel, with its single states
\* in the order order: the outcome of the first run is kept for comparison.
Rerun ==
    /\ pc \in {"done", "panic"}
    /\ run = 1
    /\ \E order \in Shuffles(Capacity(tp)) : shuffle' = order
    /\ run' = 2
    /\ first_log' = terms_log
    /\ first_result' = result
    /\ first_panic' = panic
    /\ pc' = "start"
    /\ single_states' = << >>
    /\ indices' = None
    /\ level_states' = << >>
    /\ sorted_states' = << >>
    /\ term_states' = << >>
    /\ terms_log' = << >>
    /\ term' = NoTerm
    /\ l' = 0
    /\ s' = 0
    /\ cur_l' = 0
    /\ cur_s' = 0
    /\ result' = {}
    /\ panic' = ""
    /\ UNCHANGED <<tp, electrons, overflow_checks, err>>

InitShuffle == InitFor(MaxShuffleL, Capacity(MaxShuffleL)) \/ InitBoundary

NextShuffle == Next \/ Rerun

SpecShuffle == InitShuffle /\ [][NextShuffle]_vars

(***************************************************************************)
(* The run up to its first level state, for sublevels whose level states   *)
(* are too many to list.                                                   *)
(***************************************************************************)
MapFirst == level_states = << >> /\ indices # None /\ MapState

InitFold == InitFor(MaxWideL, Capacity(MaxWideL) + 1)

NextFold == New \/ Enumerate \/ MapFirst

SpecFold == InitFold /\ [][NextFold]_vars

(***************************************************************************)
(* Quantities the properties are stated in.                                *)
(***************************************************************************)
\* The binomial coefficient C(n, k).
RECURSIVE Binomial(_, _)
Binomial(n, k) ==
    IF k < 0 \/ k > n THEN 0
    ELSE IF k = 0 \/ k = n THEN 1
    ELSE Binomial(n - 1, k - 1) + Binomial(n - 1, k)

\* The sum over the terms of S of (2 momentum + 1) multiplet.
RECURSIVE Weight(_)
Weight(S) ==
    IF S = {} THEN 0
    ELSE LET t == CHOOSE y \in S : TRUE
         IN  (2 * t.momentum + 1) * t.multiplet + Weight(S \ {t})

\* The number of labels recorded for the terms of S.
RECURSIVE Recorded(_)
Recorded(S) ==
    IF S = {} THEN 0
    ELSE LET t == CHOOSE y \in S : TRUE
         IN  Len(term_states[t]) + Recorded(S \ {t})

\* The number of labels in table[ml][ms], a missing bucket counting as 0.
Count(table, ml, ms) ==
    IF ml \in DOMAIN table /\ ms \in DOMAIN table[ml] THEN Len(table[ml][ms]) ELSE 0

\* The spins -sv, -sv + 2, ..., sv.
SpinsUpTo(sv) == {ms \in (-sv)..sv : (ms + sv) % 2 = 0}

\* The labels popped so far, and how many they are.
RemovedNames ==
    UNION {{term_states[t][i] : i \in 1..Len(term_states[t])} : t \in DOMAIN term_states}

RemovedCount == Recorded(DOMAIN term_states)

\* A label names electrons distinct single states, in increasing order.
IsMicrostate(name) ==
    /\ Len(name) = electrons
    /\ \A i \in 1..Len(name) : name[i] \in 1..Capacity(tp)
    /\ \A i \in 1..(Len(name) - 1) : name[i] < name[i + 1]

Occurrences(seq, x) == Cardinality({i \in 1..Len(seq) : seq[i] = x})

T(mult, mom) == [momentum |-> mom, multiplet |-> mult]

(***************************************************************************)
(* C1 *)
(***************************************************************************)
\* The expects of the two for loops (lib.rs 215-224).
EmptyCellPanics ==
    {"Should be entry for this key, enforced above",
     "Should be entry states with this spin!",
     "Should be at least one state, will be enforced now"}

\* C1: no expect of the sweep fails; when the sweep of an iteration starts
\* every cell of the rectangle -l..l by -s..s (step 2) holds a label, and
\* the cell the inner loop is about to pop exists and holds a label.
C1_CellsNonEmpty ==
    /\ panic \notin EmptyCellPanics
    /\ (pc = "for_l" /\ cur_l = -l) =>
          \A ml \in (-l)..l : \A ms \in SpinsUpTo(s) : Count(sorted_states, ml, ms) >= 1
    /\ (pc = "for_s" /\ cur_s <= s) => Count(sorted_states, cur_l, cur_s) >= 1

\* A d sublevel, about to pop the last label of a cell.
C1_Witness ==
    /\ pc = "for_s"
    /\ cur_s <= s
    /\ tp = 2
    /\ electrons = 3
    /\ Count(sorted_states, cur_l, cur_s) = 1

(***************************************************************************)
(* C2 *)
(***************************************************************************)
C2_AllRemoved ==
    pc = "done" =>
        /\ DOMAIN sorted_states = {}
        /\ RemovedCount = Binomial(Capacity(tp), electrons)
        /\ Cardinality(RemovedNames) = RemovedCount
        /\ \A name \in RemovedNames : IsMicrostate(name)

\* C2: a run on a valid sublevel reaches the return (one on an invalid one
\* ends with the error), and at the return the table is empty and the labels
\* removed are C(2(2L+1), n) distinct microstates: each one exactly once.
C2_Terminates ==
    /\ <>(pc = (IF electrons <= Capacity(tp) THEN "done" ELSE "err"))
    /\ []C2_AllRemoved

\* The half-filled d sublevel has returned.
C2_Witness == pc = "done" /\ tp = 2 /\ electrons = 5 /\ RemovedCount = 252

(***************************************************************************)
(* C3 *)
(***************************************************************************)
\* C3: the sum over the returned TermTypes of (2 momentum + 1) multiplet is
\* C(2(2L+1), n).
C3_Conservation ==
    pc = "done" =>
        Weight(result) = Binomial(Capacity(tp), electrons)

(***************************************************************************)
(* C4 *)
(***************************************************************************)
Fixture(t, n) ==
    IF t = 1 /\ n = 1 THEN {T(2, 1)}
    ELSE IF t = 1 /\ n = 2 THEN {T(1, 0), T(1, 2), T(3, 1)}
    ELSE IF t = 1 /\ n = 3 THEN {T(2, 1), T(2, 2), T(4, 0)}
    ELSE {T(1, 0), T(1, 2), T(1, 4), T(3, 1), T(3, 3)}

IsFixture == (tp = 1 /\ electrons \in {1, 2, 3}) \/ (tp = 2 /\ electrons = 2)

\* C4: p1, p2, p3 and d2 return the textbook terms, with no panic or error.
C4_Fixtures ==
    IsFixture =>
        /\ pc \notin {"panic", "err"}
        /\ pc = "done" => result = Fixture(tp, electrons)

\* d2 has returned.
C4_Witness == pc = "done" /\ tp = 2 /\ electrons = 2 /\ Cardinality(result) = 5

(***************************************************************************)
(* C5 *)
(***************************************************************************)
\* C5: the empty and the full sublevel have one microstate, with ML = 0 and
\* MS = 0, take one iteration and return the one term 1S.
C5_Boundary ==
    (electrons = 0 \/ electrons = Capacity(tp)) =>
        /\ pc \notin {"panic", "err"}
        /\ (pc = "while" /\ terms_log = << >>) =>
              /\ DOMAIN sorted_states = {0}
              /\ DOMAIN sorted_states[0] = {0}
              /\ Len(sorted_states[0][0]) = 1
        /\ pc = "done" =>
              /\ result = {T(1, 0)}
              /\ terms_log = <<T(1, 0)>>
              /\ RemovedCount = 1

(***************************************************************************)
(* C6 *)
(***************************************************************************)
\* C6 as claimed: for every u8 L, max_electrons is 2(2L+1) and SubLevel::new
\* returns Ok iff n <= 2(2L+1) and otherwise the error ToMuch carrying L.
C6_Original ==
    pc # "new" =>
        /\ MaxElectronsChecked(tp) = Some(Capacity(tp))
        /\ pc \in {"start", "err"}
        /\ pc = "start" <=> electrons <= Capacity(tp)
        /\ pc = "err" => err = <<"ToMuch", tp>>

\* C6 as amended: the above for L <= 63; for L >= 64 max_electrons
\* overflows a u8 and both it and SubLevel::new panic with WHY.
C6_New ==
    pc # "new" =>
        IF tp <= 63
        THEN /\ MaxElectronsChecked(tp) = Some(Capacity(tp))
             /\ pc \in {"start", "err"}
             /\ pc = "start" <=> electrons <= Capacity(tp)
             /\ pc = "err" => err = <<"ToMuch", tp>>
             /\ panic = ""
        ELSE /\ MaxElectronsChecked(tp) = None
             /\ pc = "panic"
             /\ panic = WHY
             /\ err = None

\* SubLevel::new(L = 1, n = 7) has failed.
C6_Witness == pc = "err" /\ tp = 1 /\ electrons = 7 /\ err = <<"ToMuch", 1>>

(***************************************************************************)
(* C7 *)
(***************************************************************************)
\* The sum of component k of the single states that name[lo..hi] lists, as
\* an integer of no width.
RECURSIVE SumOfIndex(_, _, _, _, _)
SumOfIndex(name, states, k, lo, hi) ==
    IF lo > hi THEN 0
    ELSE IF lo = hi THEN states[name[lo]][k]
    ELSE SumOfIndex(name, states, k, lo, (lo + hi) \div 2)
             + SumOfIndex(name, states, k, ((lo + hi) \div 2) + 1, hi)

\* C7: on an accepted sublevel nothing panics, and the i8 sums of a level
\* state are the sums of its electrons' ml and doubled ms.
C7_Total ==
    /\ pc # "panic"
    /\ \A i \in 1..Len(level_states) :
          LET name == level_states[i][1]
          IN  /\ level_states[i][2] =
                     SumOfIndex(name, single_states, 1, 1, Len(name))
              /\ level_states[i][3] =
                     SumOfIndex(name, single_states, 2, 1, Len(name))

(***************************************************************************)
(* C8 *)
(***************************************************************************)
\* C8: with the single states listed in a shuffled order the run ends as
\* with the order of the code: it returns if that one has returned, and then
\* it has logged the same terms the same number of times and returns the
\* same set.
C8_OrderIndependent ==
    run = 2 =>
        /\ pc = "panic" => first_panic # ""
        /\ pc = "done" =>
              /\ first_panic = ""
              /\ result = first_result
              /\ \A t \in first_result \cup result :
                    Occurrences(terms_log, t) = Occurrences(first_log, t)

\* p3 has returned a second time, from a list that was not in order.
C8_Witness ==
    /\ run = 2
    /\ pc = "done"
    /\ tp = 1
    /\ electrons = 3
    /\ shuffle # Identity(Len(shuffle))
    /\ Cardinality(result) = 3

(***************************************************************************)
(* C9 *)
(***************************************************************************)
NoEmptyBucket ==
    \A ml \in DOMAIN sorted_states :
        \A ms \in DOMAIN sorted_states[ml] : sorted_states[ml][ms] # << >>

NoEmptyRowBut(rows) ==
    \A ml \in (DOMAIN sorted_states) \ rows : DOMAIN sorted_states[ml] # {}

\* C9: whenever the while condition is evaluated, and before each row is
\* visited, the table has no empty row and no empty bucket; before each cell
\* is visited it has no empty bucket, and no empty row but the current one.
C9_WellFormed ==
    /\ pc \in {"while", "for_l", "done"} => (NoEmptyBucket /\ NoEmptyRowBut({}))
    /\ pc = "for_s" => (NoEmptyBucket /\ NoEmptyRowBut({cur_l}))
    /\ (pc = "for_s" /\ cur_s <= s) => NoEmptyRowBut({})

\* An iteration has deleted its top row and left others.
C9_Witness ==
    /\ pc = "while"
    /\ terms_log # << >>
    /\ DOMAIN sorted_states # {}
    /\ l \notin DOMAIN sorted_states

====
